---- MODULE Spec2Model ----
(***************************************************************************)
(* Model of the Jikan anime ETL pipeline (src/dag/etl.py, src/dag/dag.py): *)
(* paginated extraction, transformation of raw entries into flat records,  *)
(* and the transactional upsert of the records into the anime table.       *)
(***************************************************************************)
EXTENDS Integers, Sequences, FiniteSets, TLC

VARIABLES
    max_pages,   \* config["api_extraction"]["max_pages"] of the run
    csv_path,    \* whether config["output"]["csv_path"] is set
    page,        \* extract_all_anime: the page counter
    all_anime,   \* extract_all_anime: the accumulated raw entries
    responses,   \* the upstream responses observed so far, in order
    trace,       \* observable events: sleeps, requests, log lines, in order
    pc,          \* main(): the stage that runs next
    anime_df,    \* main(): the outcome of extract_all_anime
    processed,   \* main(): the outcome of preprocess_anime_data
    csv_file,    \* the rows of the CSV file, once written
    main_error,  \* the exception main() caught, "none" if none
    ld,          \* load_to_postgres: the state of each call in progress
    table,       \* the committed rows of the anime table
    db_faults,   \* whether the database may fail a step of a call
    hist,        \* history of the load calls, read by the properties only
    dag          \* the DAG run: task instances, their tries, the XCom values

vars == <<max_pages, csv_path, page, all_anime, responses, trace, pc,
          anime_df, processed, csv_file, main_error, ld, table, db_faults,
          hist, dag>>

extract_vars == <<page, all_anime, responses>>
main_vars == <<max_pages, csv_path, pc, anime_df, processed, csv_file,
               main_error, dag>>
db_vars == <<ld, table, db_faults, hist>>

-----------------------------------------------------------------------------
(* Bounds of the model *)

\* largest configured max_pages explored besides the default
MaxPagesCfg == 3
\* number of entries the upstream catalogue holds during one run
CatalogSize == 28
\* number of entries of a page that is not full
ShortPage == 3

(* Program constants *)

\* etl.py:37  config["api_extraction"].get("max_pages", 10)
DefaultMaxPages == 10
\* etl.py:46  params={"page": page, "limit": 25}
PageLimit == 25
\* etl.py:38  config["api_extraction"].get("rate_limit_delay", 2)
rate_limit_delay == 2

-----------------------------------------------------------------------------
(* Python values.  Every value is a record tagged by its type, so values of *)
(* different types can be compared.                                         *)

None == [t |-> "none"]
NaN == [t |-> "nan"]
IntV(n) == [t |-> "int", n |-> n]
Str(s) == [t |-> "str", s |-> s]
Dict(d) == [t |-> "dict", d |-> d]
List(items) == [t |-> "list", items |-> items]
Date(y, m, d) == [t |-> "date", y |-> y, m |-> m, d |-> d]

Range(s) == {s[k] : k \in DOMAIN s}

-----------------------------------------------------------------------------
(* pandas.DataFrame, as far as the pipeline uses it: the column labels and  *)
(* the rows, each row a function from the column labels to values.  The     *)
(* raw frame keeps its labels as a set (it is only read by label), the      *)
(* processed frame as a sequence (to_numpy goes by position).               *)

\* etl.py:74  pd.DataFrame(all_anime): the columns are the keys that occur in
\* any entry; an entry without a key holds NaN in that column.  An empty list
\* gives a frame with no columns and no rows.
DataFrame(entries) ==
    LET cols == UNION {DOMAIN entries[k] : k \in DOMAIN entries}
    IN  [columns |-> cols,
         rows |-> [k \in DOMAIN entries |->
                     [c \in cols |-> IF c \in DOMAIN entries[k]
                                     THEN entries[k][c] ELSE NaN]]]

\* len(df)
Len_df(df) == Len(df.rows)

\* the outcome of a call: a returned value or a raised exception
Return(v) == [raised |-> FALSE, value |-> v]
Raise(e) == [raised |-> TRUE, exc |-> e]

-----------------------------------------------------------------------------
(* JikanDataExtractor.preprocess_anime_data *)

\* etl.py:86-99
columns_to_keep ==
    <<"mal_id", "url", "title", "title_english", "type", "episodes",
      "status", "aired", "rating", "score", "genres", "themes">>

\* the columns of the frame preprocess_anime_data returns, in order:
\* columns_to_keep, then the four derived columns (etl.py:127-145), without
\* the three dropped ones (etl.py:148)
processed_columns ==
    <<"mal_id", "url", "title", "title_english", "type", "episodes",
      "status", "rating", "score", "start_date", "end_date",
      "genre_names", "theme_names">>

\* Python truthiness of the values a date field can hold
Truthy(v) ==
    CASE v.t = "none" -> FALSE
      [] v.t = "nan" -> TRUE
      [] v.t = "str" -> v.s # ""
      [] v.t = "int" -> v.n # 0
      [] v.t = "list" -> v.items # <<>>
      [] v.t = "dict" -> DOMAIN v.d # {}
      [] OTHER -> TRUE

\* dict.get(key): None when the key is absent
Get(dict, key) == IF key \in DOMAIN dict.d THEN dict.d[key] ELSE None

\* pd.to_datetime(v).date() for the values the model's entries carry: ISO
\* timestamps of the API parse to their calendar date, an integer is taken
\* as nanoseconds since the epoch, any other string raises ValueError, a
\* list gives an index whose .date is not callable (TypeError).
to_datetime_date(v) ==
    CASE v = Str("2020-01-01T00:00:00+00:00") -> Return(Date(2020, 1, 1))
      [] v = Str("2020-06-01T00:00:00+00:00") -> Return(Date(2020, 6, 1))
      [] v = Str("2020-01-01") -> Return(Date(2020, 1, 1))
      [] v = Str("2020-06-01") -> Return(Date(2020, 6, 1))
      [] v.t = "int" -> Return(Date(1970, 1, 1))
      [] v.t = "str" -> Raise("ValueError")
      [] OTHER -> Raise("TypeError")

process_dates_NoSentinel(aired) ==
    IF aired.t # "dict" THEN <<None, None>>
    ELSE LET from == Get(aired, "from")
             to == Get(aired, "to")
         IN  <<IF Truthy(from) /\ ~to_datetime_date(from).raised
               THEN to_datetime_date(from).value ELSE None,
               IF ~Truthy(to) THEN Str("Ongoing")
               ELSE IF to_datetime_date(to).raised THEN None
               ELSE to_datetime_date(to).value>>

\* etl.py:108-124  process_dates(aired): <<start_date, end_date>>
process_dates(aired) ==
    IF aired.t # "dict" THEN <<None, None>>
    ELSE LET from == Get(aired, "from")
             to == Get(aired, "to")
             start_date ==
                 IF Truthy(from)
                 THEN (IF to_datetime_date(from).raised
                       THEN None ELSE to_datetime_date(from).value)
                 ELSE None
             end_date ==
                 IF Truthy(to)
                 THEN (IF to_datetime_date(to).raised
                       THEN Str("Ongoing") ELSE to_datetime_date(to).value)
                 ELSE Str("Ongoing")
         IN  <<start_date, end_date>>

\* ", ".join(names) for a non-empty list of str
RECURSIVE Join(_)
Join(names) ==
    IF Len(names) = 1 THEN names[1]
    ELSE names[1] \o ", " \o Join(Tail(names))

\* etl.py:132-137  [g["name"] for g in x] if isinstance(x, list) else []:
\* the first element that is no dict raises TypeError, the first dict
\* without "name" raises KeyError.
names_of(x) ==
    IF x.t # "list" THEN Return(<<>>)
    ELSE LET bad == {k \in DOMAIN x.items :
                        \/ x.items[k].t # "dict"
                        \/ "name" \notin DOMAIN x.items[k].d}
         IN  IF bad = {}
             THEN Return([k \in DOMAIN x.items |-> x.items[k].d["name"]])
             ELSE LET k == CHOOSE j \in bad : \A h \in bad : j <= h
                  IN  IF x.items[k].t # "dict" THEN Raise("TypeError")
                      ELSE Raise("KeyError")

\* etl.py:140-145  ", ".join(x) if x else "": a name that is no str makes
\* join raise TypeError
join_names(names) ==
    IF names = <<>> THEN Return(Str(""))
    ELSE IF \E k \in DOMAIN names : names[k].t # "str" THEN Raise("TypeError")
    ELSE Return(Str(Join([k \in DOMAIN names |-> names[k].s])))

\* the exception of the first raising outcome of a column-wise apply,
\* "none" when no row raises
FirstRaise(outcomes) ==
    LET bad == {k \in DOMAIN outcomes : outcomes[k].raised}
    IN  IF bad = {} THEN "none"
        ELSE outcomes[CHOOSE j \in bad : \A h \in bad : j <= h].exc

\* etl.py:105  fillna(0)
fillna0(v) == IF v.t \in {"none", "nan"} THEN IntV(0) ELSE v

\* one row of the processed frame (etl.py:102-148), when nothing raises
processed_row(r) ==
    [mal_id |-> r["mal_id"], url |-> r["url"], title |-> r["title"],
     title_english |-> r["title_english"], type |-> r["type"],
     episodes |-> fillna0(r["episodes"]), status |-> r["status"],
     rating |-> r["rating"], score |-> r["score"],
     start_date |-> process_dates(r["aired"])[1],
     end_date |-> process_dates(r["aired"])[2],
     genre_names |-> join_names(names_of(r["genres"]).value).value,
     theme_names |-> join_names(names_of(r["themes"]).value).value]

\* etl.py:77-150  preprocess_anime_data(df): the processed frame, or the
\* exception raised.  df[columns_to_keep] raises KeyError when a column is
\* not in the frame; then each apply runs over its whole column, in the
\* order of the code: genres, themes, genre_names, theme_names.
preprocess_anime_data(df) ==
    IF ~(Range(columns_to_keep) \subseteq df.columns) THEN Raise("KeyError")
    ELSE LET g == [k \in DOMAIN df.rows |-> names_of(df.rows[k]["genres"])]
             th == [k \in DOMAIN df.rows |-> names_of(df.rows[k]["themes"])]
         IN  IF FirstRaise(g) # "none" THEN Raise(FirstRaise(g))
             ELSE IF FirstRaise(th) # "none" THEN Raise(FirstRaise(th))
             ELSE LET gj == [k \in DOMAIN g |-> join_names(g[k].value)]
                      tj == [k \in DOMAIN th |-> join_names(th[k].value)]
                  IN  IF FirstRaise(gj) # "none" THEN Raise(FirstRaise(gj))
                      ELSE IF FirstRaise(tj) # "none" THEN Raise(FirstRaise(tj))
                      ELSE Return([columns |-> processed_columns,
                                   rows |-> [k \in DOMAIN df.rows |->
                                               processed_row(df.rows[k])]])

-----------------------------------------------------------------------------
(* The upstream catalogue *)

\* the j-th entry the listing endpoint serves during a run: the twelve keys
\* the pipeline projects and one it does not, with the shapes the API gives
\* a finished, an airing and an unscheduled title
SourceEntry(j) ==
    [mal_id |-> IntV(j),
     url |-> Str("https://myanimelist.net/anime"),
     title |-> Str("title"),
     title_english |-> IF j % 2 = 0 THEN None ELSE Str("title_en"),
     type |-> Str("TV"),
     episodes |-> IF j % 3 = 2 THEN None ELSE IntV(12),
     status |-> IF j % 3 = 2 THEN Str("Currently Airing")
                ELSE Str("Finished Airing"),
     aired |-> CASE j % 3 = 1 ->
                      Dict([from |-> Str("2020-01-01T00:00:00+00:00"),
                            to |-> Str("2020-06-01T00:00:00+00:00")])
                 [] j % 3 = 2 ->
                      Dict([from |-> Str("2020-01-01T00:00:00+00:00"),
                            to |-> None])
                 [] OTHER -> Dict([from |-> None, to |-> None]),
     rating |-> Str("PG-13"),
     score |-> IntV(50 + j),
     genres |-> IF j % 3 = 0 THEN List(<<>>)
                ELSE List(<<Dict([name |-> Str("Action")]),
                            Dict([name |-> Str("Comedy")])>>),
     themes |-> IF j % 2 = 0 THEN List(<<Dict([name |-> Str("School")])>>)
                ELSE List(<<>>),
     synopsis |-> Str("text")]

\* the sizes of the data list of a successful response
PageSizes == {0, ShortPage, PageLimit}

\* exceptions that are requests.RequestException
RequestExceptions ==
    {"requests.ConnectionError", "requests.HTTPError",
     "requests.JSONDecodeError"}

\* what one GET can give when `served` entries were served before: a JSON
\* body with a data list, or the exception the iteration raises: the
\* connection fails (requests.get), the status is an error
\* (raise_for_status), the body is not JSON (response.json(): a
\* RequestException from requests 2.27 on, json's own ValueError before), the
\* JSON has no "data" (data["data"]).
Responses(served) ==
    {[kind |-> "ok", exc |-> "none",
      data |-> [k \in 1..n |-> SourceEntry(served + k)]] :
        n \in {m \in PageSizes : served + m <= CatalogSize}}
    \cup {[kind |-> "failed", exc |-> e, data |-> <<>>] :
            e \in {"requests.ConnectionError", "requests.HTTPError",
                   "requests.JSONDecodeError", "json.JSONDecodeError",
                   "KeyError"}}

-----------------------------------------------------------------------------
(* JikanDataExtractor.extract_all_anime *)

Event(ev, a, b) == [ev |-> ev, a |-> a, b |-> b]

NotYet == [raised |-> FALSE, pending |-> TRUE]

\* etl.py:53  if not data["data"]: break
EndOfCatalog(data) == data = <<>>

CapReached_Equal(pg, cap) == pg = cap

CapReached_OffByOne(pg, cap) == pg > cap

\* etl.py:60  if page >= max_pages: break
CapReached(pg, cap) == pg >= cap

Extend_Replace(acc, data) == data

\* etl.py:57  all_anime.extend(data["data"])
Extend(acc, data) == acc \o data

RequestEvents_NoFirstSleep(pg) ==
    IF pg = 1 THEN <<[ev |-> "get", a |-> pg, b |-> PageLimit]>>
    ELSE <<[ev |-> "sleep", a |-> rate_limit_delay, b |-> 0],
           [ev |-> "get", a |-> pg, b |-> PageLimit]>>

\* etl.py:43-47  time.sleep(rate_limit_delay), then requests.get for the
\* page with limit 25
RequestEvents(pg) ==
    <<[ev |-> "sleep", a |-> rate_limit_delay, b |-> 0],
      [ev |-> "get", a |-> pg, b |-> PageLimit]>>

NextPage_Skip(pg) == pg + 2

\* etl.py:63  page += 1
NextPage(pg) == pg + 1

\* etl.py:69  except requests.RequestException
Caught(exc) == exc \in RequestExceptions

\* etl.py:40-75  one iteration of the while loop for response r, and the
\* return of the frame when the iteration leaves the loop
ExtractIteration(r) ==
    LET asked == trace \o RequestEvents(page)
    IN  /\ responses' = Append(responses, r)
        /\ IF r.kind = "failed"
           THEN IF Caught(r.exc)
                THEN \* except requests.RequestException: log, break
                     /\ trace' = Append(asked, Event("error", page, 0))
                     /\ UNCHANGED <<page, all_anime>>
                     /\ anime_df' = Return(DataFrame(all_anime))
                ELSE \* any other exception leaves the function
                     /\ trace' = asked
                     /\ UNCHANGED <<page, all_anime>>
                     /\ anime_df' = Raise(r.exc)
           ELSE IF EndOfCatalog(r.data)
                THEN \* if not data["data"]: break
                     /\ trace' = asked
                     /\ UNCHANGED <<page, all_anime>>
                     /\ anime_df' = Return(DataFrame(all_anime))
                ELSE /\ all_anime' = Extend(all_anime, r.data)
                     /\ IF CapReached(page, max_pages)
                        THEN /\ trace' = asked
                             /\ UNCHANGED page
                             /\ anime_df' = Return(DataFrame(all_anime'))
                        ELSE /\ page' = NextPage(page)
                             /\ trace' = Append(asked,
                                   Event("info", page' - 1, Len(all_anime')))
                             /\ UNCHANGED anime_df

-----------------------------------------------------------------------------
(* JikanDataExtractor.load_to_postgres *)

\* the calls that can be in progress at once
Procs == {1, 2}

\* etl.py:193-197  the column list of the INSERT, in the order of its
\* thirteen placeholders
insert_columns ==
    <<"mal_id", "url", "title", "title_english", "type", "episodes",
      "status", "rating", "score", "start_date", "end_date",
      "genre_names", "theme_names">>

IndexOf(seq, x) == CHOOSE k \in DOMAIN seq : seq[k] = x

\* etl.py:215  [tuple(row) for row in df.to_numpy()]: each row as the tuple
\* of its values in the order of the frame's columns
data_to_insert(df_columns, rows) ==
    [k \in DOMAIN rows |-> [c \in DOMAIN df_columns |-> rows[k][df_columns[c]]]]

\* the row one execution of the INSERT proposes: placeholder k takes the
\* k-th value of the tuple
Excluded(tuple) ==
    [c \in Range(insert_columns) |-> tuple[IndexOf(insert_columns, c)]]

Ids(rows) == {r["mal_id"] : r \in rows}

Upsert_DoNothing(rows, new) ==
    IF new["mal_id"] \notin Ids(rows) THEN rows \cup {new} ELSE rows

Upsert_WrongColumn(rows, new) ==
    IF new["mal_id"] \notin Ids(rows) THEN rows \cup {new}
    ELSE {IF r["mal_id"] # new["mal_id"] THEN r
          ELSE [new EXCEPT !["title"] = new["title_english"]] : r \in rows}

\* etl.py:192-212  INSERT ... ON CONFLICT (mal_id) DO UPDATE SET ...: with
\* no row of that mal_id the proposed row is inserted; otherwise every
\* non-key column of the existing row is set from the proposed row
Upsert(rows, new) ==
    IF new["mal_id"] \notin Ids(rows) THEN rows \cup {new}
    ELSE {IF r["mal_id"] # new["mal_id"] THEN r
          ELSE [r EXCEPT !["url"] = new["url"],
                         !["title"] = new["title"],
                         !["title_english"] = new["title_english"],
                         !["type"] = new["type"],
                         !["episodes"] = new["episodes"],
                         !["status"] = new["status"],
                         !["rating"] = new["rating"],
                         !["score"] = new["score"],
                         !["start_date"] = new["start_date"],
                         !["end_date"] = new["end_date"],
                         !["genre_names"] = new["genre_names"],
                         !["theme_names"] = new["theme_names"]] : r \in rows}

\* the rows a transaction sees: the committed rows, overlaid by the rows it
\* wrote itself
Visible(committed, own) ==
    own \cup {r \in committed : r["mal_id"] \notin Ids(own)}

CommittedAfterStatement_Autocommit(committed, own) == Visible(committed, own)

\* etl.py:160-166  the connection is opened with psycopg2's default,
\* autocommit off: what a statement writes stays in the open transaction
\* and the committed rows are as before
CommittedAfterStatement(committed, own) == committed

\* the outcomes of a step that talks to the database: TRUE when it
\* succeeds, FALSE when psycopg2 raises
StepOutcomes == IF db_faults THEN BOOLEAN ELSE {TRUE}

IdleCall ==
    [pc |-> "idle", df |-> <<>>, i |-> 1, conn |-> "unbound",
     cur |-> "unbound", pending |-> {}, exc |-> "none", outcome |-> NotYet,
     before |-> {}, same |-> FALSE]

\* another call holds an uncommitted write of the row with this mal_id
LockedByOther(p, id) ==
    \E q \in Procs \ {p} : id \in Ids(ld[q].pending)

\* the mal_id of the statement call p executes next
NextId(p) == Excluded(ld[p].df[ld[p].i])["mal_id"]

\* the last row a batch proposes for each mal_id it holds
LastOfBatch(tuples) ==
    {Excluded(tuples[k]) : k \in {j \in DOMAIN tuples :
        \A h \in DOMAIN tuples :
            h > j => Excluded(tuples[h])["mal_id"] # Excluded(tuples[j])["mal_id"]}}

\* load_to_postgres(df) is called (etl.py:152): nothing is bound yet
LoadStart(p, df_columns, rows) ==
    /\ ld[p].pc \in {"idle", "ended"}
    /\ ld' = [ld EXCEPT ![p] =
                [IdleCall EXCEPT
                   !.pc = "connect",
                   !.df = data_to_insert(df_columns, rows),
                   !.before = table,
                   !.same = /\ ld[p].pc = "ended"
                            /\ ld[p].outcome = Return(None)
                            /\ ld[p].df = data_to_insert(df_columns, rows)]]
    /\ hist' = [hist EXCEPT !.calls = @ + 1]
    /\ UNCHANGED <<table, db_faults, trace>>

\* etl.py:160-166  conn = psycopg2.connect(...)
Connect(p) ==
    /\ ld[p].pc = "connect"
    /\ \E ok \in StepOutcomes :
         ld' = [ld EXCEPT ![p] =
                  IF ok THEN [@ EXCEPT !.conn = "open", !.pc = "cursor"]
                  ELSE [@ EXCEPT !.exc = "psycopg2.OperationalError",
                                 !.pc = "except"]]
    /\ UNCHANGED <<table, db_faults, hist, trace>>

\* etl.py:169  cur = conn.cursor()
Cursor(p) ==
    /\ ld[p].pc = "cursor"
    /\ \E ok \in StepOutcomes :
         ld' = [ld EXCEPT ![p] =
                  IF ok THEN [@ EXCEPT !.cur = "open", !.pc = "create"]
                  ELSE [@ EXCEPT !.exc = "psycopg2.InterfaceError",
                                 !.pc = "except"]]
    /\ UNCHANGED <<table, db_faults, hist, trace>>

\* etl.py:172-189  cur.execute(CREATE TABLE IF NOT EXISTS anime ...); an
\* empty batch makes executemany (etl.py:218) run no statement
CreateTable(p) ==
    /\ ld[p].pc = "create"
    /\ \E ok \in StepOutcomes :
         ld' = [ld EXCEPT ![p] =
                  IF ok
                  THEN [@ EXCEPT !.pc = IF ld[p].df = <<>> THEN "commit"
                                        ELSE "execute"]
                  ELSE [@ EXCEPT !.exc = "psycopg2.ProgrammingError",
                                 !.pc = "except"]]
    /\ UNCHANGED <<table, db_faults, hist, trace>>

\* etl.py:218  cur.executemany(insert_query, data_to_insert): the statement
\* for the next tuple.  It waits while another transaction holds an
\* uncommitted write of the row with its mal_id.
ExecuteRow(p) ==
    /\ ld[p].pc = "execute"
    /\ ~LockedByOther(p, NextId(p))
    /\ \E ok \in StepOutcomes :
         ld' = [ld EXCEPT ![p] =
                  IF ok
                  THEN LET new == Excluded(ld[p].df[ld[p].i])
                           seen == Upsert(Visible(table, ld[p].pending), new)
                       IN  [@ EXCEPT
                              !.pending = {r \in seen : r["mal_id"] \in
                                  Ids(ld[p].pending) \cup {new["mal_id"]}},
                              !.i = @ + 1,
                              !.pc = IF ld[p].i = Len(ld[p].df)
                                     THEN "commit" ELSE "execute"]
                  ELSE [@ EXCEPT !.exc = "psycopg2.DataError",
                                 !.pc = "except"]]
    /\ table' = CommittedAfterStatement(table, ld'[p].pending)
    /\ UNCHANGED <<db_faults, hist, trace>>

\* two calls each wait for a row the other wrote: the server's deadlock
\* detector makes the statement of one of them raise
DeadlockDetected(p) ==
    /\ ld[p].pc = "execute"
    /\ \E q \in Procs \ {p} :
         /\ ld[q].pc = "execute"
         /\ NextId(p) \in Ids(ld[q].pending)
         /\ NextId(q) \in Ids(ld[p].pending)
    /\ ld' = [ld EXCEPT ![p] = [@ EXCEPT !.exc = "psycopg2.DeadlockDetected",
                                         !.pc = "except"]]
    /\ hist' = [hist EXCEPT !.deadlocks = @ + 1]
    /\ UNCHANGED <<table, db_faults, trace>>

\* etl.py:221-222  conn.commit(), then the success line is logged
Commit(p) ==
    /\ ld[p].pc = "commit"
    /\ \E ok \in StepOutcomes :
         IF ok
         THEN /\ table' = Visible(table, ld[p].pending)
              /\ ld' = [ld EXCEPT ![p] = [@ EXCEPT !.pending = {},
                                                   !.pc = "finally"]]
              /\ trace' = Append(trace, Event("loaded", Len(ld[p].df), p))
              /\ hist' = [hist EXCEPT
                    !.loaded = LastOfBatch(ld[p].df) \cup
                        {r \in @ : r["mal_id"] \notin Ids(LastOfBatch(ld[p].df))},
                    !.commits = Append(@, p)]
         ELSE /\ ld' = [ld EXCEPT ![p] =
                          [@ EXCEPT !.exc = "psycopg2.OperationalError",
                                    !.pc = "except"]]
              /\ UNCHANGED <<table, trace, hist>>
    /\ UNCHANGED db_faults

\* etl.py:224-226  except (Exception, psycopg2.Error): log the error, raise
Except(p) ==
    /\ ld[p].pc = "except"
    /\ trace' = Append(trace, Event("db_error", 0, p))
    /\ ld' = [ld EXCEPT ![p] = [@ EXCEPT !.pc = "finally"]]
    /\ UNCHANGED <<table, db_faults, hist>>

\* etl.py:227-231  finally: if conn: cur.close(); conn.close().  Reading a
\* name that was never bound raises UnboundLocalError, which replaces the
\* exception in flight and skips the rest of the block.  Closing the
\* connection discards what the transaction wrote and did not commit.
Finally(p) ==
    /\ ld[p].pc = "finally"
    /\ ld' = [ld EXCEPT ![p] =
         IF ld[p].conn = "unbound"
         THEN [@ EXCEPT !.outcome = Raise("UnboundLocalError"),
                        !.pc = "ended"]
         ELSE IF ld[p].cur = "unbound"
         THEN [@ EXCEPT !.outcome = Raise("UnboundLocalError"),
                        !.pc = "ended"]
         ELSE [@ EXCEPT !.cur = "closed", !.conn = "closed",
                        !.pending = {},
                        !.outcome = IF ld[p].exc = "none" THEN Return(None)
                                    ELSE Raise(ld[p].exc),
                        !.pc = "ended"]]
    /\ UNCHANGED <<table, db_faults, hist, trace>>

\* one step of the call p has in progress
LoadStep(p) ==
    \/ Connect(p)
    \/ Cursor(p)
    \/ CreateTable(p)
    \/ ExecuteRow(p)
    \/ Commit(p)
    \/ Except(p)
    \/ Finally(p)

InitHist == [calls |-> 0, loaded |-> {}, commits |-> <<>>, deadlocks |-> 0]

-----------------------------------------------------------------------------
(* The DAG jikan_anime_data_extraction (dag.py) *)

\* dag.py:91-110  the task ids
Tasks == {"extract_anime_data", "preprocess_anime_data", "load_to_postgres"}

\* dag.py:113  extract_task >> preprocess_task >> load_task
Upstream(t) ==
    IF t = "preprocess_anime_data" THEN {"extract_anime_data"}
    ELSE IF t = "load_to_postgres" THEN {"preprocess_anime_data"}
    ELSE {}

\* dag.py:77  'retries': 1
retries == 1

\* dag.py:1-12, 15-113  the names bound in the module dag.py: its imports,
\* its functions and its assignments
dag_globals ==
    {"DAG", "PythonOperator", "days_ago", "timedelta", "sys", "os",
     "load_config", "JikanDataExtractor", "extract_anime_data",
     "preprocess_anime_data", "load_to_postgres", "default_args", "dag",
     "extract_task", "preprocess_task", "load_task"}

\* df.to_dict() (dag.py:26, 49): column -> {index label -> value}, the
\* index labels being 0, 1, ...; a frame without rows has no columns here
to_dict(df) ==
    LET cols == IF df.rows = <<>> THEN {} ELSE DOMAIN df.rows[1]
    IN  [keys |-> df.columns,
         d |-> [c \in cols |->
                  [k \in 0..(Len(df.rows) - 1) |-> df.rows[k + 1][c]]]]

\* pd.DataFrame.from_dict(x) (dag.py:39, 62): one column per key, one row
\* per index label
from_dict(x) ==
    LET cols == DOMAIN x.d
        n == IF cols = {} THEN 0
             ELSE Cardinality(DOMAIN x.d[CHOOSE c \in cols : TRUE])
    IN  [columns |-> x.keys,
         rows |-> [k \in 1..n |-> [c \in cols |-> x.d[c][k - 1]]]]

\* a DAG run the scheduler has just created: no task instance has run and
\* nothing was pushed to XCom
NewDagRun ==
    [state |-> [t \in Tasks |-> "none"],
     try_number |-> [t \in Tasks |-> 0],
     error |-> [t \in Tasks |-> "none"],
     xcom |-> [k \in {"anime_df", "processed_anime_df"} |-> None],
     in_call |-> FALSE,
     started |-> <<>>]

\* the task instance t of run d ends: it succeeded, or it raised exc and is
\* retried while its try number is within 'retries' (dag.py:77)
Ended(d, t, exc) ==
    [d EXCEPT !.state[t] = IF exc = "none" THEN "success"
                           ELSE IF d.try_number[t] <= retries
                           THEN "up_for_retry" ELSE "failed",
              !.error[t] = exc]

-----------------------------------------------------------------------------
(* main(): extract, preprocess, optional CSV, load (etl.py:251-275) *)

\* a row an earlier run left in the table: entry 1 with another score
StaleRow ==
    [processed_row(DataFrame(<<SourceEntry(1)>>).rows[1])
        EXCEPT !["score"] = IntV(10)]

\* the values of max_pages explored: the default and the small ones, zero
\* and a negative one included
MaxPagesValues == (-1 .. MaxPagesCfg) \cup {DefaultMaxPages}

Init ==
    /\ max_pages \in MaxPagesValues
    /\ csv_path \in BOOLEAN
    /\ page = 1
    /\ all_anime = <<>>
    /\ responses = <<>>
    /\ trace = <<>>
    /\ pc = "extract"
    /\ anime_df = NotYet
    /\ processed = NotYet
    /\ csv_file = <<>>
    /\ main_error = "none"
    /\ dag = NewDagRun
    /\ ld = [p \in Procs |-> IdleCall]
    /\ table \in {{}, {StaleRow}}
    /\ db_faults = TRUE
    /\ hist = [InitHist EXCEPT !.loaded = table]

\* etl.py:260  anime_df = extractor.extract_all_anime(): one iteration of
\* its loop; an exception that leaves it is caught by main (etl.py:273)
MainExtract ==
    /\ pc = "extract"
    /\ \E r \in Responses(Len(all_anime)) : ExtractIteration(r)
    /\ pc' = IF anime_df' = NotYet THEN "extract"
             ELSE IF anime_df'.raised THEN "done" ELSE "preprocess"
    /\ main_error' = IF anime_df' # NotYet /\ anime_df'.raised
                     THEN anime_df'.exc ELSE main_error
    /\ UNCHANGED <<dag, max_pages, csv_path, processed, csv_file>>
    /\ UNCHANGED db_vars

\* etl.py:262  processed_anime_df = extractor.preprocess_anime_data(anime_df)
MainPreprocess ==
    /\ pc = "preprocess"
    /\ processed' = preprocess_anime_data(anime_df.value)
    /\ pc' = IF processed'.raised THEN "done"
             ELSE IF csv_path THEN "csv" ELSE "load"
    /\ main_error' = IF processed'.raised THEN processed'.exc ELSE main_error
    /\ UNCHANGED <<dag, max_pages, csv_path, anime_df, csv_file, trace>>
    /\ UNCHANGED extract_vars
    /\ UNCHANGED db_vars

\* etl.py:265-266  processed_anime_df.to_csv(csv_path, index=False): the
\* write can fail (OSError), which main catches
MainCsv ==
    /\ pc = "csv"
    /\ \E ok \in BOOLEAN :
         IF ok
         THEN /\ csv_file' = <<processed.value.columns>>
                                \o data_to_insert(processed.value.columns,
                                                  processed.value.rows)
              /\ pc' = "load"
              /\ UNCHANGED main_error
         ELSE /\ main_error' = "OSError"
              /\ pc' = "done"
              /\ UNCHANGED csv_file
    /\ UNCHANGED <<dag, max_pages, csv_path, anime_df, processed, trace>>
    /\ UNCHANGED extract_vars
    /\ UNCHANGED db_vars

\* etl.py:269  extractor.load_to_postgres(processed_anime_df) is called
MainLoad ==
    /\ pc = "load"
    /\ LoadStart(1, processed.value.columns, processed.value.rows)
    /\ pc' = "loading"
    /\ UNCHANGED <<dag, max_pages, csv_path, anime_df, processed, csv_file,
                   main_error>>
    /\ UNCHANGED extract_vars

\* the call made at etl.py:269 runs
MainLoading ==
    /\ pc = "loading"
    /\ LoadStep(1)
    /\ UNCHANGED main_vars
    /\ UNCHANGED extract_vars

\* etl.py:270-275  the call has ended: main prints the totals, or catches
\* what the call raised
MainLoaded ==
    /\ pc = "loading"
    /\ ld[1].pc = "ended"
    /\ pc' = "done"
    /\ main_error' = IF ld[1].outcome.raised THEN ld[1].outcome.exc
                     ELSE main_error
    /\ trace' = IF ld[1].outcome.raised THEN trace
                ELSE Append(trace, Event("complete", Len_df(processed.value), 0))
    /\ UNCHANGED <<dag, max_pages, csv_path, anime_df, processed, csv_file>>
    /\ UNCHANGED extract_vars
    /\ UNCHANGED db_vars

Next ==
    \/ MainExtract
    \/ MainPreprocess
    \/ MainCsv
    \/ MainLoad
    \/ MainLoading
    \/ MainLoaded

Spec == Init /\ [][Next]_vars

-----------------------------------------------------------------------------
(* load_to_postgres called repeatedly on one table *)

\* longest batch handed to a call
MaxBatch == 2
\* number of calls made one after the other
MaxCalls == 2

\* the flat record of title j, as the transformer gives it
FlatRow(j) == processed_row(DataFrame(<<SourceEntry(j)>>).rows[1])

\* records to load: title 1, title 1 again as a later extraction finds it
\* (another score, another status), and title 2
LoadRows ==
    {FlatRow(1),
     [FlatRow(1) EXCEPT !["score"] = IntV(99),
                        !["status"] = Str("Currently Airing")],
     FlatRow(2)}

RECURSIVE SeqsUpTo(_, _)
SeqsUpTo(S, n) ==
    IF n = 0 THEN {<<>>}
    ELSE SeqsUpTo(S, n - 1) \cup
         {Append(q, x) : q \in {w \in SeqsUpTo(S, n - 1) : Len(w) = n - 1},
                         x \in S}

Batches == SeqsUpTo(LoadRows, MaxBatch)

InitLoad ==
    /\ max_pages = DefaultMaxPages
    /\ csv_path = FALSE
    /\ page = 1
    /\ all_anime = <<>>
    /\ responses = <<>>
    /\ trace = <<>>
    /\ pc = "caller"
    /\ anime_df = NotYet
    /\ processed = NotYet
    /\ csv_file = <<>>
    /\ main_error = "none"
    /\ dag = NewDagRun
    /\ ld = [p \in Procs |-> IdleCall]
    /\ table \in {{}, {StaleRow}}
    /\ db_faults = TRUE
    /\ hist = [InitHist EXCEPT !.loaded = table]

\* a caller hands a frame of flat records to load_to_postgres
CallLoad ==
    /\ hist.calls < MaxCalls
    /\ \E batch \in Batches : LoadStart(1, processed_columns, batch)
    /\ UNCHANGED main_vars
    /\ UNCHANGED extract_vars

\* the call in progress takes a step
RunLoad ==
    /\ LoadStep(1)
    /\ UNCHANGED main_vars
    /\ UNCHANGED extract_vars

NextLoad == CallLoad \/ RunLoad

SpecLoad == InitLoad /\ [][NextLoad]_vars

-----------------------------------------------------------------------------
(* Two pipeline runs load into the same table at the same time *)

InitConc ==
    /\ max_pages = DefaultMaxPages
    /\ csv_path = FALSE
    /\ page = 1
    /\ all_anime = <<>>
    /\ responses = <<>>
    /\ trace = <<>>
    /\ pc = "callers"
    /\ anime_df = NotYet
    /\ processed = NotYet
    /\ csv_file = <<>>
    /\ main_error = "none"
    /\ dag = NewDagRun
    /\ ld = [p \in Procs |-> IdleCall]
    /\ table \in {{}, {StaleRow}}
    /\ db_faults = FALSE
    /\ hist = [InitHist EXCEPT !.loaded = table]

\* run p calls load_to_postgres with its batch
ConcCall(p) ==
    /\ ld[p].pc = "idle"
    /\ \E batch \in Batches : LoadStart(p, processed_columns, batch)
    /\ UNCHANGED main_vars
    /\ UNCHANGED extract_vars

\* the call of run p takes a step
ConcRun(p) ==
    /\ LoadStep(p)
    /\ UNCHANGED main_vars
    /\ UNCHANGED extract_vars

\* the server breaks a deadlock by failing the statement of run p
ConcDeadlock(p) ==
    /\ DeadlockDetected(p)
    /\ UNCHANGED main_vars
    /\ UNCHANGED extract_vars

NextConc == \E p \in Procs : ConcCall(p) \/ ConcRun(p) \/ ConcDeadlock(p)

SpecConc == InitConc /\ [][NextConc]_vars

-----------------------------------------------------------------------------
(* preprocess_anime_data applied to raw entries of every shape *)

\* longest sequence of raw entries handed to the transformer
MaxEntries == 2

\* entry e without key k
Without(e, k) == [c \in DOMAIN e \ {k} |-> e[c]]

\* raw entries: the three shapes the catalogue serves, and entries with a
\* date range, a name list or a key set that is not as the API documents
TransformEntries ==
    {SourceEntry(1), SourceEntry(2), SourceEntry(3),
     [SourceEntry(1) EXCEPT !["aired"] = None],
     [SourceEntry(1) EXCEPT !["aired"] = Str("2020-01-01")],
     [SourceEntry(1) EXCEPT !["aired"] =
         Dict([from |-> Str("not a date"), to |-> Str("not a date")])],
     [SourceEntry(1) EXCEPT !["aired"] = Dict([from |-> Str("2020-01-01")])],
     [SourceEntry(1) EXCEPT !["aired"] =
         Dict([from |-> Str(""), to |-> Str("2020-06-01")])],
     [SourceEntry(2) EXCEPT !["genres"] = None],
     [SourceEntry(2) EXCEPT !["genres"] = List(<<Dict([mal_id |-> IntV(1)])>>)],
     [SourceEntry(2) EXCEPT !["themes"] = List(<<Str("School")>>)],
     [SourceEntry(2) EXCEPT !["genres"] =
         List(<<Dict([name |-> Str("Action")]), Dict([name |-> None])>>)],
     Without(SourceEntry(2), "themes"),
     Without(SourceEntry(3), "url")}

InitTransform ==
    /\ max_pages = DefaultMaxPages
    /\ csv_path = FALSE
    /\ page = 1
    /\ all_anime \in SeqsUpTo(TransformEntries, MaxEntries)
    /\ responses = <<>>
    /\ trace = <<>>
    /\ pc = "preprocess"
    /\ anime_df = Return(DataFrame(all_anime))
    /\ processed = NotYet
    /\ csv_file = <<>>
    /\ main_error = "none"
    /\ dag = NewDagRun
    /\ ld = [p \in Procs |-> IdleCall]
    /\ table = {}
    /\ db_faults = TRUE
    /\ hist = InitHist

NextTransform == MainPreprocess

SpecTransform == InitTransform /\ [][NextTransform]_vars

-----------------------------------------------------------------------------
(* Properties of extract_all_anime *)

\* the page numbers of the requests issued so far, in order
Requested ==
    LET gets == SelectSeq(trace, LAMBDA e : e.ev = "get")
    IN  [k \in DOMAIN gets |-> gets[k].a]

IsEmptyPage(r) == r.kind = "ok" /\ r.data = <<>>

\* C1: with max_pages = N >= 1 a call of extract_all_anime issues at most N
\* page requests, whatever the upstream answers, and a response with an
\* empty data list is the last request of the call.
C1_AtMostNRequests ==
    /\ max_pages >= 1 => Len(Requested) <= max_pages
    /\ \A k \in DOMAIN responses :
         IsEmptyPage(responses[k]) => Len(Requested) = k

\* the cap of three pages is met by the request that finds the catalogue
\* exhausted
C1_Witness ==
    /\ max_pages = 3
    /\ Len(Requested) = 3
    /\ IsEmptyPage(responses[3])
    /\ Len(all_anime) = PageLimit + ShortPage
    /\ pc = "done"

-----------------------------------------------------------------------------
(* Properties of load_to_postgres *)

Failed(p) == ld[p].exc # "none"

Committed(p) == ld[p].pc \in {"finally", "ended"} /\ ~Failed(p)

\* C2: a call of load_to_postgres is atomic.  Until its commit the table
\* holds the rows it held when the call began; if a step fails (table
\* creation, a row statement, the commit) it still holds exactly those rows
\* when the call ends; and after the commit every record of the batch is
\* in the table at once.
C2_LoadAtomic ==
    /\ (ld[1].pc # "idle" /\ ~Committed(1)) => table = ld[1].before
    /\ Failed(1) => table = ld[1].before
    /\ Committed(1) =>
         /\ \A r \in LastOfBatch(ld[1].df) : r \in table
         /\ \A r \in ld[1].before :
              r["mal_id"] \notin Ids(LastOfBatch(ld[1].df)) => r \in table

\* a two-row batch fails at its second statement and the call has ended
C2_Witness ==
    /\ ld[1].pc = "ended"
    /\ ld[1].exc = "psycopg2.DataError"
    /\ ld[1].i = 2
    /\ Len(ld[1].df) = 2
    /\ ld[1].before = {StaleRow}

\* C3: loading the same record set twice in succession leaves the table as
\* the first load left it.
C3_LoadIdempotent ==
    (ld[1].same /\ ld[1].pc = "ended" /\ ld[1].outcome = Return(None))
        => table = ld[1].before

\* the second of two successful loads of one two-row batch has ended
C3_Witness ==
    /\ ld[1].same
    /\ ld[1].pc = "ended"
    /\ ld[1].outcome = Return(None)
    /\ Len(ld[1].df) = 2
    /\ hist.commits = <<1, 1>>

\* C4: after any sequence of successful loads the table holds exactly one
\* row per mal_id loaded, and that row is the most recently loaded record
\* of its mal_id, also when the record comes later in the same batch.
C4_LastWriteWins ==
    /\ table = hist.loaded
    /\ Cardinality(Ids(table)) = Cardinality(table)

\* title 1 was loaded twice in one batch with different scores and the
\* table holds one row for it, with the second score
C4_Witness ==
    /\ ld[1].pc = "ended"
    /\ ld[1].outcome = Return(None)
    /\ Len(ld[1].df) = 2
    /\ Excluded(ld[1].df[1])["mal_id"] = IntV(1)
    /\ Excluded(ld[1].df[2])["mal_id"] = IntV(1)
    /\ Excluded(ld[1].df[1])["score"] # Excluded(ld[1].df[2])["score"]
    /\ \E r \in table : r = Excluded(ld[1].df[2])
    /\ Cardinality(table) = 1

\* C6: when load_to_postgres fails with a persistence error, at whatever
\* step, the error is logged, nothing is committed, and the caller receives
\* that persistence error.
C6_PersistenceErrorReachesCaller ==
    (Failed(1) /\ ld[1].pc = "ended") =>
        /\ ld[1].outcome = Raise(ld[1].exc)
        /\ trace # <<>> /\ trace[Len(trace)] = Event("db_error", 0, 1)
        /\ table = ld[1].before

\* C7: when a call of load_to_postgres has ended, every connection and
\* cursor it opened is closed.
C7_ResourcesReleased ==
    ld[1].pc = "ended" => ld[1].conn # "open" /\ ld[1].cur # "open"

\* call p waits for a row that call q wrote and has not committed
WaitsFor(p, q) ==
    /\ ld[p].pc = "execute"
    /\ NextId(p) \in Ids(ld[q].pending)

\* the mal_ids both batches hold
SharedIds ==
    {Excluded(ld[1].df[k])["mal_id"] : k \in DOMAIN ld[1].df}
        \cap {Excluded(ld[2].df[k])["mal_id"] : k \in DOMAIN ld[2].df}

\* C8: two calls of load_to_postgres that run concurrently on batches that
\* share identifiers are safe under every interleaving: they are never
\* blocked on each other, both complete, and every shared mal_id ends with
\* one row, the record of the call that committed last.
C8_ConcurrentLoadsSafe ==
    /\ ~(WaitsFor(1, 2) /\ WaitsFor(2, 1))
    /\ (ld[1].pc = "ended" /\ ld[2].pc = "ended") =>
         /\ ld[1].outcome = Return(None)
         /\ ld[2].outcome = Return(None)
         /\ \A id \in SharedIds :
              /\ Cardinality({r \in table : r["mal_id"] = id}) = 1
              /\ \E r \in LastOfBatch(ld[hist.commits[2]].df) :
                   r["mal_id"] = id /\ r \in table

-----------------------------------------------------------------------------
(* Properties of preprocess_anime_data and of the whole run *)

RECURSIVE Flatten(_)
Flatten(pages) ==
    IF pages = <<>> THEN <<>> ELSE Head(pages) \o Flatten(Tail(pages))

\* the data lists of the first n responses
PagesUpTo(n) == [k \in 1..n |-> responses[k].data]

\* C5: a failure on page k (error status, network failure, body that is not
\* JSON or has no data list) ends pagination: it is logged, it is the last
\* request, no exception leaves extract_all_anime, and the call returns the
\* entries of pages 1..k-1.
C5_FailureEndsPagination ==
    \A k \in DOMAIN responses :
        responses[k].kind = "failed" =>
            /\ Len(Requested) = k
            /\ \E j \in DOMAIN trace : trace[j] = Event("error", k, 0)
            /\ anime_df = Return(DataFrame(Flatten(PagesUpTo(k - 1))))

CarriesRequiredKeys(e) == Range(columns_to_keep) \subseteq DOMAIN e

\* C9: for every sequence of raw entries that carry the required keys, of
\* any length and whatever their date and list fields hold,
\* preprocess_anime_data returns, without raising, one record per entry, in
\* the same order and with the same mal_id.
C9_TransformTotal ==
    (/\ processed # NotYet
     /\ \A k \in DOMAIN all_anime : CarriesRequiredKeys(all_anime[k])) =>
        /\ ~processed.raised
        /\ Len(processed.value.rows) = Len(all_anime)
        /\ \A k \in DOMAIN all_anime :
             processed.value.rows[k]["mal_id"] = all_anime[k]["mal_id"]

\* the responses of a source whose pages 1..k hold entries, k >= 1, read
\* without a failure up to the empty page k+1 (max_pages > k) or up to the
\* cap (max_pages = k)
CleanSource ==
    LET k == Cardinality({j \in DOMAIN responses : responses[j].data # <<>>})
    IN  /\ \A j \in DOMAIN responses : responses[j].kind = "ok"
        /\ k >= 1
        /\ \A j \in 1..k : responses[j].data # <<>>
        /\ \/ Len(responses) = k + 1 /\ max_pages > k
           \/ Len(responses) = k /\ max_pages = k

\* C10: when a run reads such a source and neither the CSV write nor the
\* database fails, it extracts the entries of pages 1..k in page order (page
\* k included when max_pages = k), transforms them into as many records,
\* and upserts as many rows.
C10_EndToEnd ==
    (pc = "done" /\ CleanSource /\ main_error # "OSError" /\ ~Failed(1)) =>
        /\ main_error = "none"
        /\ all_anime = Flatten(PagesUpTo(Len(responses)))
        /\ anime_df = Return(DataFrame(all_anime))
        /\ ~processed.raised
        /\ Len(processed.value.rows) = Len(all_anime)
        /\ \A j \in DOMAIN all_anime :
             processed.value.rows[j]["mal_id"] = all_anime[j]["mal_id"]
        /\ ld[1].outcome = Return(None)
        /\ ld[1].i = Len(all_anime) + 1
        /\ \A j \in DOMAIN all_anime : processed.value.rows[j] \in table
        /\ Cardinality(table) = Len(all_anime)

\* the run of the scenario: 25 entries, 3 entries, an empty page, read with
\* max_pages = 10: 28 records and 28 rows
C10_Witness ==
    /\ pc = "done"
    /\ main_error = "none"
    /\ max_pages = DefaultMaxPages
    /\ Len(responses) = 3
    /\ Len(responses[1].data) = PageLimit
    /\ Len(responses[2].data) = ShortPage
    /\ IsEmptyPage(responses[3])
    /\ Len(processed.value.rows) = PageLimit + ShortPage
    /\ Cardinality(table) = PageLimit + ShortPage

-----------------------------------------------------------------------------
(* Properties of the date derivation *)

\* the entry's lists are as the API documents them: the name comprehensions
\* and joins of the transformer do not raise
ListsOk(e) ==
    /\ ~names_of(e["genres"]).raised
    /\ ~names_of(e["themes"]).raised
    /\ ~join_names(names_of(e["genres"]).value).raised
    /\ ~join_names(names_of(e["themes"]).value).raised

\* the date range holds a value under this key that parses to a date
HasDate(aired, key) ==
    /\ key \in DOMAIN aired.d
    /\ aired.d[key] # None
    /\ ~to_datetime_date(aired.d[key]).raised

\* C11: date derivation never raises, whatever aired holds: when aired is
\* absent or not a structured object both dates are absent; otherwise
\* start_date is the parsed 'from' when present and parseable and absent in
\* every other case, and end_date is the parsed 'to' when present and
\* parseable and "Ongoing" when 'to' is absent or unparseable.
C11_DateDerivation ==
    (/\ processed # NotYet
     /\ all_anime # <<>>
     /\ \A k \in DOMAIN all_anime :
          CarriesRequiredKeys(all_anime[k]) /\ ListsOk(all_anime[k])) =>
        /\ ~processed.raised
        /\ \A k \in DOMAIN all_anime :
             LET aired == all_anime[k]["aired"]
                 row == processed.value.rows[k]
             IN  IF aired.t # "dict"
                 THEN row["start_date"] = None /\ row["end_date"] = None
                 ELSE /\ row["start_date"] =
                           IF HasDate(aired, "from")
                           THEN to_datetime_date(aired.d["from"]).value
                           ELSE None
                      /\ row["end_date"] =
                           IF HasDate(aired, "to")
                           THEN to_datetime_date(aired.d["to"]).value
                           ELSE Str("Ongoing")

\* an entry whose 'from' and 'to' are both unparseable was transformed: no
\* start date, end date "Ongoing"
C11_Witness ==
    /\ processed # NotYet
    /\ ~processed.raised
    /\ Len(all_anime) = 1
    /\ all_anime[1]["aired"] =
         Dict([from |-> Str("not a date"), to |-> Str("not a date")])
    /\ processed.value.rows[1]["start_date"] = None
    /\ processed.value.rows[1]["end_date"] = Str("Ongoing")

-----------------------------------------------------------------------------
(* Further properties of the transformer and of the extraction loop *)

\* C12: when an input entry lacks one of the twelve projected keys,
\* preprocess_anime_data raises, also when other entries of the batch carry
\* the key; it never returns a record with the missing field left empty.
C12_MissingKeyRaises ==
    (/\ processed # NotYet
     /\ \E k \in DOMAIN all_anime : ~CarriesRequiredKeys(all_anime[k])) =>
        processed.raised

Sleeps == SelectSeq(trace, LAMBDA e : e.ev = "sleep")

\* C13: every page request of extract_all_anime, the first included, comes
\* right after one sleep of rate_limit_delay seconds, and there are as many
\* sleeps as requests.
C13_SleepBeforeEveryRequest ==
    /\ \A j \in DOMAIN trace :
         trace[j].ev = "get" =>
            /\ j > 1
            /\ trace[j - 1] = Event("sleep", rate_limit_delay, 0)
    /\ Len(Sleeps) = Len(Requested)

\* three pages were requested, each after its own sleep
C13_Witness ==
    /\ Len(Requested) = 3
    /\ Len(Sleeps) = 3
    /\ trace[1].ev = "sleep"
    /\ anime_df # NotYet

\* number of entries appended by the first n responses
TotalUpTo(n) == Len(Flatten(PagesUpTo(n)))

\* the responses whose entries were appended to the result
CompletedPages ==
    {k \in DOMAIN responses :
        responses[k].kind = "ok" /\ responses[k].data # <<>>}

\* C14: extraction logs progress exactly once for every completed page, the
\* page on which the max_pages cap is reached included, with the page's
\* number and the running total of entries.
C14_ProgressLoggedPerPage ==
    \A k \in CompletedPages :
        Cardinality({j \in DOMAIN trace :
            trace[j] = Event("info", k, TotalUpTo(k))}) = 1

-----------------------------------------------------------------------------
(* Further properties of main() and of load_to_postgres *)

\* C15: when a CSV path is configured, the load is attempted with the
\* records the transformer produced whether the CSV write succeeds or
\* fails; the CSV write does not decide whether or what is loaded.
C15_CsvDoesNotGateLoad ==
    (pc = "done" /\ csv_path /\ processed # NotYet /\ ~processed.raised) =>
        /\ hist.calls >= 1
        /\ ld[1].df = data_to_insert(processed.value.columns,
                                     processed.value.rows)

\* extraction stopped on a failure: the request for its last page failed
\* and the loop's except clause ended the pagination (etl.py:69-71)
StoppedOnFailure ==
    /\ responses # <<>>
    /\ responses[Len(responses)].kind = "failed"
    /\ Caught(responses[Len(responses)].exc)

\* C16: when extraction stops on a failure at page k >= 1 (k = 1, with no
\* entry collected, included) and neither the CSV write nor the database
\* fails, the run does not fail: the entries of pages 1..k-1 are
\* transformed and loaded without a raise, and exactly they are upserted.
C16_FailureDegradesGracefully ==
    (pc = "done" /\ StoppedOnFailure /\ main_error # "OSError"
        /\ ~Failed(1)) =>
        /\ main_error = "none"
        /\ anime_df = Return(DataFrame(Flatten(PagesUpTo(Len(responses) - 1))))
        /\ processed # NotYet
        /\ ~processed.raised
        /\ Len(processed.value.rows) = Len(all_anime)
        /\ ld[1].outcome = Return(None)
        /\ ld[1].i = Len(all_anime) + 1
        /\ \A j \in DOMAIN all_anime : processed.value.rows[j] \in table

\* C17: a call of load_to_postgres that succeeds returns the number of
\* records it processed.
C17_LoadReturnsCount ==
    (ld[1].pc = "ended" /\ ~ld[1].outcome.raised) =>
        ld[1].outcome = Return(IntV(Len(ld[1].df)))

\* C18: the pages requested are 1, 2, ..., k in this order, each once; a
\* request is answered before the next one is issued; and page n+1 is
\* requested only after page n returned a non-empty data list.
C18_SequentialPagination ==
    /\ Requested = [k \in 1..Len(Requested) |-> k]
    /\ Len(responses) = Len(Requested)
    /\ \A n \in 1..(Len(Requested) - 1) :
         /\ responses[n].kind = "ok"
         /\ responses[n].data # <<>>

\* pages 1, 2, 3 were requested and the request for page 3 failed
C18_Witness ==
    /\ Requested = <<1, 2, 3>>
    /\ responses[3].kind = "failed"
    /\ Len(all_anime) = PageLimit + ShortPage

-----------------------------------------------------------------------------
(* Termination of extract_all_anime *)

\* main() with the loop of extract_all_anime running on: every request it
\* issues is answered (by a body or by an exception), so an iteration that
\* can run does run
SpecLive == Init /\ [][Next]_vars /\ WF_vars(MainExtract)

\* C19: for every integer max_pages, zero and negative ones included, and
\* whatever the source answers (it may never answer with an empty page),
\* extract_all_anime ends, after at least one request and at most
\* max(1, max_pages) requests.
C19_ExtractTerminates ==
    /\ [](Len(Requested) <= IF max_pages > 1 THEN max_pages ELSE 1)
    /\ [](anime_df # NotYet => Len(Requested) >= 1)
    /\ <>(anime_df # NotYet)

\* max_pages is negative, the source answers page 1 with entries, and the
\* extraction returned them after that one request
C19_Witness ==
    /\ max_pages < 0
    /\ Requested = <<1>>
    /\ responses[1].kind = "ok"
    /\ Len(responses[1].data) = PageLimit
    /\ anime_df = Return(DataFrame(responses[1].data))

-----------------------------------------------------------------------------
(* One run of the DAG (dag.py:15-113) *)

InitDag ==
    /\ max_pages \in MaxPagesValues
    /\ csv_path \in BOOLEAN
    /\ page = 1
    /\ all_anime = <<>>
    /\ responses = <<>>
    /\ trace = <<>>
    /\ pc = "dag"
    /\ anime_df = NotYet
    /\ processed = NotYet
    /\ csv_file = <<>>
    /\ main_error = "none"
    /\ dag = NewDagRun
    /\ ld = [p \in Procs |-> IdleCall]
    /\ table \in {{}, {StaleRow}}
    /\ db_faults = TRUE
    /\ hist = [InitHist EXCEPT !.loaded = table]

\* the scheduler starts task t, for the first time or for a retry, once
\* every task upstream of it has succeeded (dag.py:113, trigger rule
\* all_success); the callable of the extract task starts with fresh locals
DagStart(t) ==
    /\ dag.state[t] \in {"none", "up_for_retry"}
    /\ \A u \in Upstream(t) : dag.state[u] = "success"
    /\ dag' = [dag EXCEPT !.state[t] = "running",
                          !.try_number[t] = @ + 1,
                          !.in_call = FALSE,
                          !.started = Append(@, t)]
    /\ IF t = "extract_anime_data"
       THEN /\ page' = 1
            /\ all_anime' = <<>>
            /\ responses' = <<>>
            /\ anime_df' = NotYet
       ELSE UNCHANGED <<page, all_anime, responses, anime_df>>
    /\ UNCHANGED <<max_pages, csv_path, pc, processed, csv_file, main_error,
                   trace>>
    /\ UNCHANGED db_vars

\* the scheduler gives up task t when a task upstream of it has failed
DagUpstreamFailed(t) ==
    /\ dag.state[t] = "none"
    /\ \E u \in Upstream(t) : dag.state[u] \in {"failed", "upstream_failed"}
    /\ dag' = [dag EXCEPT !.state[t] = "upstream_failed"]
    /\ UNCHANGED <<max_pages, csv_path, pc, anime_df, processed, csv_file,
                   main_error, trace>>
    /\ UNCHANGED extract_vars
    /\ UNCHANGED db_vars

\* dag.py:15-28  extract_anime_data: one iteration of extract_all_anime;
\* when the call returns, the frame is pushed to XCom as a dict and the
\* task succeeds; when it raises, the task fails
ExtractTask ==
    /\ dag.state["extract_anime_data"] = "running"
    /\ \E r \in Responses(Len(all_anime)) : ExtractIteration(r)
    /\ dag' = IF anime_df' = NotYet THEN dag
              ELSE IF anime_df'.raised
              THEN Ended(dag, "extract_anime_data", anime_df'.exc)
              ELSE Ended([dag EXCEPT !.xcom["anime_df"] =
                                        to_dict(anime_df'.value)],
                         "extract_anime_data", "none")
    /\ UNCHANGED <<max_pages, csv_path, pc, processed, csv_file, main_error>>
    /\ UNCHANGED db_vars

\* dag.py:31-51  preprocess_anime_data: the name pd is looked up in the
\* module's globals (dag.py:39), NameError when it is not bound; then the
\* frame is rebuilt from XCom, transformed, written to the CSV when
\* configured, and pushed to XCom
PreprocessTask ==
    IF "pd" \notin dag_globals
    THEN /\ dag' = Ended(dag, "preprocess_anime_data", "NameError")
         /\ UNCHANGED <<processed, csv_file>>
    ELSE LET out == preprocess_anime_data(from_dict(dag.xcom["anime_df"]))
         IN  /\ processed' = out
             /\ IF out.raised
                THEN /\ dag' = Ended(dag, "preprocess_anime_data", out.exc)
                     /\ UNCHANGED csv_file
                ELSE \E ok \in IF csv_path THEN BOOLEAN ELSE {TRUE} :
                       IF ok
                       THEN /\ csv_file' =
                                 IF csv_path
                                 THEN <<out.value.columns>>
                                        \o data_to_insert(out.value.columns,
                                                          out.value.rows)
                                 ELSE csv_file
                            /\ dag' = Ended(
                                 [dag EXCEPT !.xcom["processed_anime_df"] =
                                                to_dict(out.value)],
                                 "preprocess_anime_data", "none")
                       ELSE /\ dag' = Ended(dag, "preprocess_anime_data",
                                            "OSError")
                            /\ UNCHANGED csv_file

\* dag.py:54-67  load_to_postgres: the name pd is looked up (dag.py:62),
\* then the frame rebuilt from XCom is handed to the extractor's
\* load_to_postgres, whose call runs step by step; the task ends as the
\* call ends
LoadTask ==
    IF "pd" \notin dag_globals
    THEN /\ dag' = Ended(dag, "load_to_postgres", "NameError")
         /\ UNCHANGED <<ld, table, db_faults, hist, trace>>
    ELSE IF ~dag.in_call
    THEN LET frame == from_dict(dag.xcom["processed_anime_df"])
         IN  /\ LoadStart(1, frame.columns, frame.rows)
             /\ dag' = [dag EXCEPT !.in_call = TRUE]
    ELSE IF ld[1].pc = "ended"
    THEN /\ dag' = Ended(dag, "load_to_postgres",
                         IF ld[1].outcome.raised THEN ld[1].outcome.exc
                         ELSE "none")
         /\ UNCHANGED <<ld, table, db_faults, hist, trace>>
    ELSE /\ LoadStep(1)
         /\ UNCHANGED dag

\* the callable of the running preprocess or load task takes a step
DagRunTask ==
    \E t \in {"preprocess_anime_data", "load_to_postgres"} :
        /\ dag.state[t] = "running"
        /\ IF t = "preprocess_anime_data"
           THEN /\ PreprocessTask
                /\ UNCHANGED <<ld, table, db_faults, hist, trace>>
           ELSE /\ LoadTask
                /\ UNCHANGED <<processed, csv_file>>
        /\ UNCHANGED <<max_pages, csv_path, pc, anime_df, main_error>>
        /\ UNCHANGED extract_vars

NextDag ==
    \/ \E t \in Tasks : DagStart(t)
    \/ \E t \in Tasks : DagUpstreamFailed(t)
    \/ ExtractTask
    \/ DagRunTask

SpecDag == InitDag /\ [][NextDag]_vars

\* the run is over: no task instance is left to run
DagRunOver ==
    \A t \in Tasks : dag.state[t] \in {"success", "failed", "upstream_failed"}

\* C20: in a DAG run the tasks start in the order extract_anime_data,
\* preprocess_anime_data, load_to_postgres, each only after its predecessor
\* succeeded; the load task writes the records the preprocess task produced
\* from the run's extracted entries; and a run whose extract task succeeded
\* ends with the load task completed when the database does not fail.
C20_DagRunsInOrder ==
    /\ \A t \in Tasks :
         dag.try_number[t] > 0 => \A u \in Upstream(t) : dag.state[u] = "success"
    /\ \A j \in DOMAIN dag.started :
         \A u \in Upstream(dag.started[j]) :
            \E i \in 1..(j - 1) : dag.started[i] = u
    /\ dag.state["load_to_postgres"] = "success" =>
         /\ processed = preprocess_anime_data(DataFrame(all_anime))
         /\ ~processed.raised
         /\ ld[1].df = data_to_insert(processed.value.columns,
                                      processed.value.rows)
    /\ (DagRunOver /\ dag.state["extract_anime_data"] = "success"
          /\ ~Failed(1)) =>
         dag.state["load_to_postgres"] = "success"

====
